---- MODULE Spec2Model ----
(***************************************************************************)
(* Meal-planner microservices: token lifecycle of the authentication       *)
(* service (issue / refresh / logout / protected request over a TTL        *)
(* blacklist) and the recipe / review persistence with shadow-recipe       *)
(* import.  Time is counted in ticks of 1/TicksPerSec second so that the   *)
(* whole-second arithmetic of the code (JWT exp claim, int(exp - now),     *)
(* SETEX seconds) is visible.                                              *)
(***************************************************************************)
EXTENDS Integers, Sequences, FiniteSets, TLC

\* ------------------------------------------------------------------ bounds
TicksPerSec == 2
MaxTime == 4
MaxIssued == 4
MaxUserRows == 1
AccessLifeSec == 1
RefreshLifeSec == 2

Usernames == {"alice", "bob"}
Passwords == {"pw1", "pw2"}
Workers == {"w1", "w2"}
NULL == "NULL"

VARIABLES
    now,         \* wall clock, in ticks
    users,       \* rows of the users table
    nextUserId,  \* SERIAL of the users table
    blacklist,   \* redis keys blacklist:<token>, each with its expiry tick
    issued,      \* every token string handed out so far
    loggedOut,   \* tokens for which logout returned normally
    rotated,     \* refresh tokens for which refresh returned a new pair
    written,     \* tokens for which add_to_blacklist has been called
    last,        \* the last token request and its outcome
    reg,         \* the registration request each worker is serving
    regOk,       \* per username, how many registrations returned a user
    recipes,     \* rows of the recipes table
    ingredients, \* rows of the recipe_ingredients table
    reviews,     \* rows of the reviews table
    nextRecipeId,\* SERIAL of the recipes table
    nextReviewId,\* SERIAL of the reviews table
    imp,         \* the shadow import / review request each worker is serving
    shadowRet,   \* per external id, the id the last completed import returned
    lastR,       \* the last recipe request and its outcome
    mealPlans,   \* rows of the meal_plans table
    mealItems,   \* rows of the meal_plan_items table
    nextPlanId,  \* SERIAL of the meal_plans table
    nextItemId,  \* SERIAL of the meal_plan_items table
    gen,         \* the generate_meal_plan call the planner is serving
    lastM,       \* the last meal-plan request of the database service
    rf           \* the refresh_access_token call each worker is serving

tokenVars == <<now, blacklist, issued, loggedOut, rotated, written, last>>
userVars == <<users, nextUserId>>
regVars == <<reg, regOk>>
recipeVars == <<recipes, ingredients, reviews, nextRecipeId, nextReviewId, imp,
                shadowRet, lastR>>
mealVars == <<mealPlans, mealItems, nextPlanId, nextItemId, gen, lastM>>
sideVars == <<rf>>
vars == <<now, blacklist, issued, loggedOut, rotated, written, last, users, nextUserId, reg, regOk,
          recipes, ingredients, reviews, nextRecipeId, nextReviewId, imp, shadowRet, lastR,
          mealPlans, mealItems, nextPlanId, nextItemId, gen, lastM, rf>>

\* ------------------------------------------------------- exception classes
\* The classes core/exceptions.py defines.
AuthExceptions ==
    {"AuthServiceError", "ServiceUnavailable", "UserAlreadyExists", "InvalidCredentials"}

\* raise exc.<name>(...): the attribute lookup on the exceptions module comes
\* first; a name the module does not define raises AttributeError instead.
RaiseExc(name) == IF name \in AuthExceptions THEN name ELSE "AttributeError"

\* ------------------------------------------------------------------ tokens
\* A token string is determined by its claims and the signature; two tokens
\* with equal claims are the same string.
Token(sub, type, exp) == [sub |-> sub, type |-> type, exp |-> exp, sig |-> "good"]
ForgedToken == [sub |-> "alice", type |-> "refresh", exp |-> 99, sig |-> "bad"]

\* datetime.now() in whole seconds, as timegm(...utctimetuple()) yields it
NowSec(t) == t \div TicksPerSec

\* create_token: exp = now + delta, encoded by jose as whole seconds
create_token(sub, type, life, t) == Token(sub, type, NowSec(t) + life)
create_access_token(sub, t) == create_token(sub, "access", AccessLifeSec, t)
create_refresh_token(sub, t) == create_token(sub, "refresh", RefreshLifeSec, t)

\* jwt.decode: signature check, then exp check (expired iff exp < whole-second now)
JwtDecodeOk(tok, t) == tok.sig = "good" /\ ~(tok.exp < NowSec(t))

\* int(exp - datetime.now().timestamp()): truncation toward zero
TruncDiv(x, d) == IF x >= 0 THEN x \div d ELSE -((-x) \div d)
TtlPlusOne(tok, t) == TruncDiv(tok.exp * TicksPerSec - t, TicksPerSec) + 1
Ttl(tok, t) == TruncDiv(tok.exp * TicksPerSec - t, TicksPerSec)

\* ------------------------------------------------------------- redis cache
\* is_token_revoked: GET blacklist:<token>; a key is gone once now > expiry
is_token_revoked(tok, bl, t) == \E e \in bl : e.token = tok /\ ~(t > e.when)

\* add_to_blacklist: SETEX blacklist:<token> <seconds> "revoked"
AddSubjectToBlacklist(tok, seconds, bl, t) ==
    {e \in bl : e.token.sub # tok.sub}
        \cup {[token |-> x, when |-> t + seconds * TicksPerSec] :
                 x \in {y \in issued \cup {tok} : y.sub = tok.sub}}
add_to_blacklist(tok, seconds, bl, t) ==
    {e \in bl : e.token # tok} \cup {[token |-> tok, when |-> t + seconds * TicksPerSec]}

BlacklistKeys(bl, t) == {e.token : e \in {x \in bl : ~(t > x.when)}}

\* ------------------------------------------------------------- users table
get_password_hash(p) == <<"bcrypt", p>>
verify_password(p, h) == h = get_password_hash(p)

\* None, as a row
NoUser == [id |-> 0, username |-> NULL, hashed_password |-> <<"none", NULL>>,
           is_active |-> FALSE]

get_user_by_username(u) ==
    IF \E r \in users : r.username = u
    THEN CHOOSE r \in users : r.username = u
    ELSE NoUser

\* POST /users of the database service, first statement: the endpoint's
\* own lookup of the username.
DbUsernameTaken(u) == \E r \in users : r.username = u

\* INSERT INTO users: username is UNIQUE, a duplicate raises IntegrityError.
UserRow(u, h) == [id |-> nextUserId, username |-> u, hashed_password |-> h,
                  is_active |-> TRUE]
DbInsertUserNoUnique(u, h) == [ok |-> TRUE, rows |-> users \cup {UserRow(u, h)}]
DbInsertUser(u, h) ==
    IF \E r \in users : r.username = u
    THEN [ok |-> FALSE, rows |-> users]
    ELSE [ok |-> TRUE, rows |-> users \cup {UserRow(u, h)}]

\* UserRemoteRepository.create_user: the status of POST /users becomes the
\* returned row or an exception.
CreateUserOutcome(status) ==
    IF status \in {200, 201} THEN "ok"
    ELSE IF status = 400 THEN RaiseExc("UserAlreadyExists")
    ELSE RaiseExc("ServiceUnavailable")

\* ----------------------------------------------------------- recipe tables
MaxRecipes == 2
MaxReviews == 1
UserIds == {1, 2}
MealIds == {1, 9}
ExternalCatalog == {1}
\* an IngredientCreate: name and optional measure
Ing(name, measure) == [name |-> name, measure |-> measure]
IngredientLists == {<<Ing("egg", "2")>>}

\* str(n) of an identifier, and the SQL NULL of the external_id column
Str(n) == <<"str", n>>
NoExt == <<"null", 0>>
ExternalIds == {Str(n) : n \in MealIds}

\* None, as a recipe row (user_id 0 stands for NULL)
NoRecipe == [id |-> 0, user_id |-> 0, is_custom |-> FALSE, external_id |-> NoExt,
             name |-> NULL]

\* session.get(Recipe, id) / select(Recipe).where(Recipe.id == id).first()
get_custom_recipe_by_id(id) ==
    IF \E r \in recipes : r.id = id THEN CHOOSE r \in recipes : r.id = id ELSE NoRecipe

\* select(Recipe).where(Recipe.external_id == external_id).first()
get_recipe_by_external_id_miss(ext) == NoRecipe
get_recipe_by_external_id(ext) ==
    IF \E r \in recipes : r.external_id = ext
    THEN CHOOSE r \in recipes : r.external_id = ext
    ELSE NoRecipe

\* RecipeIngredient rows of one recipe, in list order
IngredientRowsDistinct(id, L) ==
    {[recipe_id |-> id, pos |-> 1, ingredient_name |-> L[i].name, measure |-> L[i].measure] :
        i \in 1..Len(L)}
IngredientRows(id, L) ==
    {[recipe_id |-> id, pos |-> i, ingredient_name |-> L[i].name, measure |-> L[i].measure] :
        i \in 1..Len(L)}

\* create_custom_recipe: Recipe(**recipe_data), is_custom = True
CustomRecipeRow(id, user_id, name) ==
    [id |-> id, user_id |-> user_id, is_custom |-> TRUE, external_id |-> NoExt,
     name |-> name]

\* create_shadow_recipe: Recipe(name=..., external_id=str(...), is_custom=False)
ShadowRecipeRowDefaultCustom(id, ext, name) ==
    [id |-> id, user_id |-> 0, is_custom |-> TRUE, external_id |-> ext, name |-> name]
ShadowRecipeRow(id, ext, name) ==
    [id |-> id, user_id |-> 0, is_custom |-> FALSE, external_id |-> ext, name |-> name]

\* INSERT of a shadow row: external_id is UNIQUE, a duplicate raises
\* IntegrityError at commit.
InsertShadowNoUnique(ext, name) ==
    [ok |-> TRUE, rows |-> recipes \cup {ShadowRecipeRow(nextRecipeId, ext, name)}]
InsertShadow(ext, name) ==
    IF \E r \in recipes : r.external_id = ext
    THEN [ok |-> FALSE, rows |-> recipes]
    ELSE [ok |-> TRUE, rows |-> recipes \cup {ShadowRecipeRow(nextRecipeId, ext, name)}]

\* update_custom_recipe: the fields the RecipeUpdate schema carries and that
\* are set; an ingredients list replaces the stored one.
Updates ==
    {[has_name |-> TRUE, name |-> "n2", has_ings |-> TRUE, ings |-> <<Ing("salt", NULL)>>]}
UpdatedRow(r, upd) == IF upd.has_name THEN [r EXCEPT !.name = upd.name] ELSE r
UpdatedIngredients(id, upd) ==
    IF upd.has_ings
    THEN {i \in ingredients : i.recipe_id # id} \cup IngredientRows(id, upd.ings)
    ELSE ingredients

\* delete_custom_recipe: the ingredients go with the recipe (cascade "all,
\* delete-orphan"); reviews.recipe_id references recipes.id without a cascade,
\* so the commit fails while a review points at the row.
DeleteNeverBlocked(id) == FALSE
DeleteBlocked(id) == \E v \in reviews : v.recipe_id = id

\* GET /recipes/external/{external_id} of the database service.  The recipe
\* router has no such route (its GET routes are /user/{user_id}, /{recipe_id}
\* and ""), so the request is answered 404 and _req returns None.
LookupExternalRoute(ext) == NoRecipe

\* RecipeService._fetch_external_recipe: GET /recipe/{id} of the fetch
\* service; a record on 200, None on any other status or exception.
FetchExternal(n, up) == up /\ n \in ExternalCatalog

\* RecipeService.get_recipe without a source: the database first, then the
\* external provider.  GET /recipes/{id} answers 404 without a row and 500
\* for a row whose user_id is NULL (the response model requires an int);
\* both leave no "id" in the result.
GetRecipe(id, up) ==
    LET row == get_custom_recipe_by_id(id)
    IN IF row # NoRecipe /\ row.user_id # 0
       THEN [found |-> TRUE, source |-> "internal", user_id |-> row.user_id]
       ELSE IF FetchExternal(id, up)
       THEN [found |-> TRUE, source |-> "external", user_id |-> 0]
       ELSE [found |-> FALSE, source |-> "none", user_id |-> 0]

\* RecipeService.get_recipe: with source = "external" the provider alone
GetRecipeFrom(id, source, up) ==
    IF source = "external"
    THEN IF FetchExternal(id, up)
         THEN [found |-> TRUE, source |-> "external", user_id |-> 0]
         ELSE [found |-> FALSE, source |-> "none", user_id |-> 0]
    ELSE GetRecipe(id, up)

\* Recipe.name.ilike("%q%"): the queries are whole names, so the pattern
\* selects the rows of that name
ILike(name, q) == name = q

\* GET /recipes?query=q of the database service: get_recipe selects the rows,
\* the endpoint answers 404 for none, and the response model
\* List[CustomRecipeResponse] (user_id: int, no external_id field) fails for
\* a selected row whose user_id is NULL, which is answered 500.
SearchRow(r) == [id |-> r.id, user_id |-> r.user_id, name |-> r.name,
                 is_custom |-> r.is_custom]
DbSearchNoValidation(q) ==
    LET rows == {r \in recipes : ILike(r.name, q)}
    IN IF rows = {} THEN [status |-> 404, body |-> {}]
       ELSE [status |-> 200, body |-> {SearchRow(r) : r \in rows}]
DbSearch(q) ==
    LET rows == {r \in recipes : ILike(r.name, q)}
    IN IF rows = {} THEN [status |-> 404, body |-> {}]
       ELSE IF \E r \in rows : r.user_id = 0 THEN [status |-> 500, body |-> {}]
       ELSE [status |-> 200, body |-> {SearchRow(r) : r \in rows}]

\* GET /search/name/{q} of the fetch service: the meals of the catalog, all
\* of them named "meal"
ExternalMeals(q) == {n \in ExternalCatalog : ILike("meal", q)}

\* create_review of the database service: Review(user_id, recipe_id, ...)
ReviewRowNoRecipe(id, user_id, recipe_id) ==
    [id |-> id, user_id |-> user_id, recipe_id |-> 0]
ReviewRow(id, user_id, recipe_id) ==
    [id |-> id, user_id |-> user_id, recipe_id |-> recipe_id]

\* None, as a review row, and session.get(Review, review_id)
NoReview == [id |-> 0, user_id |-> 0, recipe_id |-> 0]
get_review_by_id(id) ==
    IF \E v \in reviews : v.id = id THEN CHOOSE v \in reviews : v.id = id ELSE NoReview

\* ReviewService.delete_review, the permission test: the requester is the
\* author of the review, or the recipe get_recipe returns has a user_id and
\* it is the requester
MayDeleteReviewAuthorOnly(user_id, review, recipe) == review.user_id = user_id
MayDeleteReview(user_id, review, recipe) ==
    \/ review.user_id = user_id
    \/ (review.recipe_id # 0 /\ recipe.found /\ recipe.user_id # 0
           /\ recipe.user_id = user_id)

\* ----------------------------------------------------------------- actions
NoToken == [sub |-> NULL, type |-> NULL, exp |-> 0, sig |-> NULL]
\* last: op and tok are the request, res its outcome, at the tick it ran at;
\* lo / ro: tok had been logged out / rotated before the request;
\* listed: tok is in the blacklist after it; same: the request left the set of
\* blacklisted keys as it was; known: the token's subject had a user row;
\* minted: the request returned a token pair; others: every other token that
\* can be presented has the revocation status it had before the request;
\* up: the authentication service was reachable; uid: the user id returned.
NoLast == [op |-> "none", tok |-> NoToken, user |-> NULL, res |-> "none",
           at |-> 0, lo |-> FALSE, ro |-> FALSE, listed |-> FALSE,
           same |-> TRUE, known |-> FALSE, minted |-> FALSE, others |-> TRUE,
           up |-> TRUE, uid |-> 0]
Idle == [pc |-> "idle", username |-> NULL, password |-> NULL, res |-> "none",
         sawRow |-> FALSE]

\* imp[w]: mode is "import" (ensure_shadow_recipe), "review" (create_review)
\* or "shadow" (create_shadow_recipe called directly);
\* ext / rid the identifiers in hand; fetched: the provider answered 200;
\* created: this call inserted a recipe row; prevId: the id a completed import
\* of ext had returned when the call began (0: none, or the row was deleted
\* since); raced: the insert hit the unique constraint; fkFail: the review
\* insert hit the foreign key; held: when the review was stored, its recipe_id
\* was the id of a shadow row of ext.
ImpIdle == [pc |-> "idle", mode |-> "none", user |-> 0, ext |-> NoExt, rid |-> 0,
            byExt |-> FALSE, fetched |-> FALSE, created |-> FALSE, prevId |-> 0,
            raced |-> FALSE, fkFail |-> FALSE, held |-> FALSE, res |-> "none"]

\* lastR: op, requester, target id and update of the last update / delete
\* request; owner: the user_id of the target row before it (0: no such row);
\* fwd: the PUT / DELETE went to the database; same: recipes and ingredients
\* are as before; res: what the service method returned; http: the status.
\* For a review query: mode, the identifier in rid, matches: how many recipe
\* rows the statement selects, picked: the id of the row first() returned,
\* got: the ids of the reviews returned.
\* For a recipe read: mode is the source parameter, res the source tag of the
\* result, db: the database was read, ext: the external provider was asked.
\* For a search: mode is the query, got the entries of the returned list,
\* res the outcome of the internal search, ext: the provider answered 200.
\* For a review delete: rid is the review id, author the user_id of the review
\* before it (0: no such review), owner the user_id of the recipe row the
\* review refers to, same: the reviews are as before.
NoLastR == [op |-> "none", user |-> 0, rid |-> 0, owner |-> 0, fwd |-> FALSE,
            same |-> TRUE, res |-> "none", http |-> 0, mode |-> "none",
            matches |-> 0, picked |-> 0, got |-> {}, author |-> 0,
            db |-> FALSE, ext |-> FALSE]

\* generate_meal_plan not running; slots is the days dictionary it builds:
\* one entry per slot whose proposal succeeded, item = 0 for
\* "meal_plan_item_id": None.  created and inserted record what the database
\* service did for this call.
GenIdle == [pc |-> "idle", user |-> 0, days |-> 0, plan |-> 0, day |-> 0, t |-> 0,
            meal |-> 0, slots |-> {}, created |-> FALSE, inserted |-> {},
            res |-> "none"]
\* no meal-plan request yet; performed: the route body called its MealService
\* method, with id as the path parameter of a DELETE; removed: item rows the
\* statement removed
NoLastM == [route |-> "none", hdr |-> <<>>, id |-> 0, http |-> 0, performed |-> FALSE,
            same |-> TRUE, removed |-> 0]

\* refresh_access_token not running on a worker
RefreshIdle == [pc |-> "idle", tok |-> NoToken, res |-> "none"]

Init ==
    /\ now = 0
    /\ users = {}
    /\ nextUserId = 1
    /\ blacklist = {}
    /\ issued = {}
    /\ loggedOut = {}
    /\ rotated = {}
    /\ written = {}
    /\ last = NoLast
    /\ reg = [w \in Workers |-> Idle]
    /\ regOk = [u \in Usernames |-> 0]
    /\ recipes = {}
    /\ ingredients = {}
    /\ reviews = {}
    /\ nextRecipeId = 1
    /\ nextReviewId = 1
    /\ imp = [w \in Workers |-> ImpIdle]
    /\ shadowRet = [e \in ExternalIds |-> 0]
    /\ lastR = NoLastR
    /\ mealPlans = {}
    /\ mealItems = {}
    /\ nextPlanId = 1
    /\ nextItemId = 1
    /\ gen = GenIdle
    /\ lastM = NoLastM
    /\ rf = [w \in Workers |-> RefreshIdle]

\* The clock advances; redis drops the keys whose TTL has run out.  The record
\* of the last request is kept for the tick the request ran in.
Tick ==
    /\ now < MaxTime
    /\ now' = now + 1
    /\ blacklist' = {e \in blacklist : ~(now + 1 > e.when)}
    /\ last' = NoLast
    /\ UNCHANGED <<issued, loggedOut, rotated, written>>
    /\ UNCHANGED <<userVars, regVars>>
    /\ UNCHANGED <<recipeVars, mealVars, sideVars>>

\* AuthService.register_new_user, step 1: the lookup of the username
RegisterLookup(w, u, p) ==
    /\ reg[w].pc = "idle"
    /\ LET existing_user == get_user_by_username(u)
       IN reg' = [reg EXCEPT ![w] =
                    IF existing_user # NoUser
                    THEN [pc |-> "done", username |-> u, password |-> p,
                          res |-> RaiseExc("UserAlreadyExists"), sawRow |-> TRUE]
                    ELSE [pc |-> "post", username |-> u, password |-> p,
                          res |-> "none", sawRow |-> FALSE]]
    /\ UNCHANGED <<regOk, userVars, tokenVars>>
    /\ UNCHANGED <<recipeVars, mealVars, sideVars>>

\* step 2: POST /users reaches the database service, which looks the
\* username up itself and answers 400 when it is taken
RegisterPost(w) ==
    /\ reg[w].pc = "post"
    /\ reg' = [reg EXCEPT ![w] =
                 IF DbUsernameTaken(reg[w].username)
                 THEN [@ EXCEPT !.pc = "done", !.res = CreateUserOutcome(400)]
                 ELSE [@ EXCEPT !.pc = "insert"]]
    /\ UNCHANGED <<regOk, userVars, tokenVars>>
    /\ UNCHANGED <<recipeVars, mealVars, sideVars>>

\* step 3: the INSERT and commit; an IntegrityError is answered with 500
RegisterInsert(w) ==
    /\ reg[w].pc = "insert"
    /\ LET u == reg[w].username
           db == DbInsertUser(u, get_password_hash(reg[w].password))
           res == CreateUserOutcome(IF db.ok THEN 201 ELSE 500)
       IN /\ users' = db.rows
          /\ nextUserId' = IF db.ok THEN nextUserId + 1 ELSE nextUserId
          /\ reg' = [reg EXCEPT ![w] = [@ EXCEPT !.pc = "done", !.res = res]]
          /\ regOk' = IF res = "ok" THEN [regOk EXCEPT ![u] = @ + 1] ELSE regOk
    /\ UNCHANGED tokenVars
    /\ UNCHANGED <<recipeVars, mealVars, sideVars>>

\* the response has been sent; the worker takes the next request
RegisterReturn(w) ==
    /\ reg[w].pc = "done"
    /\ reg' = [reg EXCEPT ![w] = Idle]
    /\ UNCHANGED <<regOk, userVars, tokenVars>>
    /\ UNCHANGED <<recipeVars, mealVars, sideVars>>

\* DELETE /users/{id} of the database service
DeleteUser(r) ==
    /\ r \in users
    /\ users' = users \ {r}
    /\ UNCHANGED <<nextUserId, regVars, tokenVars>>
    /\ UNCHANGED <<recipeVars, mealVars, sideVars>>

\* The ban the user model provides for: is_active of a row set to false.
DeactivateUser(r) ==
    /\ r \in users
    /\ r.is_active
    /\ users' = (users \ {r}) \cup {[r EXCEPT !.is_active = FALSE]}
    /\ UNCHANGED <<nextUserId, regVars, tokenVars>>
    /\ UNCHANGED <<recipeVars, mealVars, sideVars>>

\* user_data.get(key) on the JSON of the user row
DictGet(d, key, default) == IF key \in DOMAIN d THEN d[key] ELSE default

\* AuthService._create_user_token
NewTokens(u, t) == {create_access_token(u, t), create_refresh_token(u, t)}

\* AuthService.authenticate_user
AuthenticateUser(u, p) ==
    LET user_data == get_user_by_username(u)
        res == IF user_data = NoUser THEN RaiseExc("InvalidCredentials")
               ELSE IF ~verify_password(p, user_data.hashed_password)
               THEN RaiseExc("InvalidCredentials")
               ELSE IF DictGet(user_data, "disabled", FALSE)
               THEN RaiseExc("InvalidCredentials")
               ELSE "ok"
    IN /\ res = "ok" => Cardinality(issued \cup NewTokens(u, now)) <= MaxIssued
       /\ issued' = IF res = "ok" THEN issued \cup NewTokens(u, now) ELSE issued
       /\ last' = [NoLast EXCEPT !.op = "login", !.user = u, !.at = now, !.res = res,
                                 !.minted = (res = "ok")]
       /\ UNCHANGED <<now, blacklist, loggedOut, rotated, written, userVars, regVars>>
       /\ UNCHANGED <<recipeVars, mealVars, sideVars>>

\* AuthService.refresh_access_token
RefreshOutcomeAnyType(tok) ==
    IF ~JwtDecodeOk(tok, now) THEN RaiseExc("InvalidToken")
    ELSE IF is_token_revoked(tok, blacklist, now) THEN RaiseExc("InvalidToken")
    ELSE IF get_user_by_username(tok.sub) = NoUser THEN RaiseExc("InvalidToken")
    ELSE "ok"
RefreshOutcome(tok) ==
    IF ~JwtDecodeOk(tok, now) THEN RaiseExc("InvalidToken")
    ELSE IF tok.type # "refresh" THEN RaiseExc("InvalidToken")
    ELSE IF is_token_revoked(tok, blacklist, now) THEN RaiseExc("InvalidToken")
    ELSE IF get_user_by_username(tok.sub) = NoUser THEN RaiseExc("InvalidToken")
    ELSE "ok"

RefreshAccessToken(tok) ==
    LET res == RefreshOutcome(tok)
        ttl == Ttl(tok, now)
        bl == IF res = "ok" /\ ttl > 0
              THEN add_to_blacklist(tok, ttl, blacklist, now) ELSE blacklist
    IN /\ res = "ok" => Cardinality(issued \cup NewTokens(tok.sub, now)) <= MaxIssued
       /\ blacklist' = bl
       /\ issued' = IF res = "ok" THEN issued \cup NewTokens(tok.sub, now) ELSE issued
       /\ rotated' = IF res = "ok" THEN rotated \cup {tok} ELSE rotated
       /\ written' = IF res = "ok" /\ ttl > 0 THEN written \cup {tok} ELSE written
       /\ last' = [NoLast EXCEPT !.op = "refresh", !.tok = tok, !.at = now, !.res = res,
                                 !.minted = (res = "ok"),
                                 !.lo = tok \in loggedOut, !.ro = tok \in rotated,
                                 !.listed = is_token_revoked(tok, bl, now),
                                 !.same = BlacklistKeys(bl, now) = BlacklistKeys(blacklist, now),
                                 !.known = get_user_by_username(tok.sub) # NoUser]
       /\ UNCHANGED <<now, loggedOut, userVars, regVars>>
       /\ UNCHANGED <<recipeVars, mealVars, sideVars>>

\* AuthService.logout
Logout(tok) ==
    LET ok == JwtDecodeOk(tok, now)
        ttl == Ttl(tok, now)
        bl == IF ok /\ ttl > 0
              THEN add_to_blacklist(tok, ttl, blacklist, now) ELSE blacklist
    IN /\ blacklist' = bl
       /\ loggedOut' = IF ok THEN loggedOut \cup {tok} ELSE loggedOut
       /\ last' = [NoLast EXCEPT !.op = "logout", !.tok = tok, !.at = now,
                                 !.res = IF ok THEN "ok" ELSE RaiseExc("InvalidToken"),
                                 !.lo = tok \in loggedOut, !.ro = tok \in rotated,
                                 !.listed = is_token_revoked(tok, bl, now),
                                 !.same = BlacklistKeys(bl, now) = BlacklistKeys(blacklist, now),
                                 !.known = get_user_by_username(tok.sub) # NoUser,
                                 !.others = \A x \in (issued \cup {ForgedToken}) \ {tok} :
                                               is_token_revoked(x, bl, now)
                                                   = is_token_revoked(x, blacklist, now)]
       /\ written' = IF ok /\ ttl > 0 THEN written \cup {tok} ELSE written
       /\ UNCHANGED <<now, issued, rotated, userVars, regVars>>
       /\ UNCHANGED <<recipeVars, mealVars, sideVars>>

\* get_token: None (NoToken) without the header, the word after the first
\* space of the header, or the whole header when it has no space.  A header
\* is the sequence of its words.
get_token(authorization) ==
    IF authorization = <<>> THEN NoToken
    ELSE IF Len(authorization) > 1 THEN authorization[2]
    ELSE authorization[1]

\* POST /auth/logout: logout is called only with a token
LogoutRequest(authorization) ==
    LET token == get_token(authorization)
    IN IF token # NoToken
       THEN Logout(token)
       ELSE /\ last' = [NoLast EXCEPT !.op = "logout_none", !.at = now, !.res = "ok"]
            /\ UNCHANGED <<now, blacklist, issued, loggedOut, rotated, written>>
            /\ UNCHANGED <<userVars, regVars>>
            /\ UNCHANGED <<recipeVars, mealVars, sideVars>>

\* deps.get_current_user: blacklist, then decode, then the user lookup
GetCurrentUser(tok) ==
    LET res == IF is_token_revoked(tok, blacklist, now) THEN "401"
               ELSE IF ~JwtDecodeOk(tok, now) THEN "401"
               ELSE IF get_user_by_username(tok.sub) = NoUser THEN "401"
               ELSE "200"
    IN /\ last' = [NoLast EXCEPT !.op = "protected", !.tok = tok, !.at = now, !.res = res,
                                 !.lo = tok \in loggedOut, !.ro = tok \in rotated,
                                 !.listed = is_token_revoked(tok, blacklist, now),
                                 !.known = get_user_by_username(tok.sub) # NoUser]
       /\ UNCHANGED <<now, blacklist, issued, loggedOut, rotated, written, userVars,
                       regVars>>
       /\ UNCHANGED <<recipeVars, mealVars, sideVars>>

\* GET /users/me of the authentication service: get_current_user, then the
\* User schema (username, full_name, disabled) as the response model
UserSchema(row) == [username |-> row.username, disabled |-> FALSE]
ReadUserMe(tok) ==
    IF is_token_revoked(tok, blacklist, now) \/ ~JwtDecodeOk(tok, now)
          \/ get_user_by_username(tok.sub) = NoUser
    THEN [status |-> 401, body |-> [detail |-> "Could not validate credentials"]]
    ELSE [status |-> 200, body |-> UserSchema(get_user_by_username(tok.sub))]

\* AuthClient.get_user_id_from_token: user_data["id"] of a 200 response (a
\* KeyError when the body has no such key), 401 for any other status, 503
\* when the request itself fails
get_user_id_from_token(tok, authUp) ==
    IF ~authUp THEN [res |-> "503", id |-> 0]
    ELSE IF ReadUserMe(tok).status = 200
    THEN IF "id" \in DOMAIN ReadUserMe(tok).body
         THEN [res |-> "id", id |-> ReadUserMe(tok).body.id]
         ELSE [res |-> "KeyError", id |-> 0]
    ELSE [res |-> "401", id |-> 0]

\* POST /recipes/ of the recipe service: the get_current_user dependency, then
\* create_recipe with the id it returned
CreateRecipeRequest(tok, authUp, L) ==
    LET current_user == get_user_id_from_token(tok, authUp)
    IN /\ current_user.res = "id" => nextRecipeId <= MaxRecipes
       /\ IF current_user.res = "id"
          THEN /\ recipes' = recipes \cup {[id |-> nextRecipeId, user_id |-> current_user.id,
                                             is_custom |-> TRUE, external_id |-> <<"null", 0>>,
                                             name |-> "n1"]}
               /\ ingredients' = ingredients \cup IngredientRows(nextRecipeId, L)
               /\ nextRecipeId' = nextRecipeId + 1
          ELSE UNCHANGED <<recipes, ingredients, nextRecipeId>>
       /\ last' = [NoLast EXCEPT !.op = "user_id", !.tok = tok, !.at = now,
                                 !.res = current_user.res, !.uid = current_user.id,
                                 !.up = authUp,
                                 !.listed = is_token_revoked(tok, blacklist, now),
                                 !.known = get_user_by_username(tok.sub) # NoUser]
       /\ UNCHANGED <<now, blacklist, issued, loggedOut, rotated, written, userVars, regVars>>
       /\ UNCHANGED <<reviews, nextReviewId, imp, shadowRet, lastR>>
       /\ UNCHANGED <<mealVars, sideVars>>

Presentable == issued \cup {ForgedToken}
AuthSubjects == {"alice"}

\* The authentication service: one registration at a time, logins, token
\* requests and the clock.
AuthNext ==
    \/ Tick
    \/ \E p \in {"pw1"} : nextUserId <= MaxUserRows /\ RegisterLookup("w1", "alice", p)
    \/ RegisterPost("w1")
    \/ RegisterInsert("w1")
    \/ RegisterReturn("w1")
    \/ \E r \in users : DeleteUser(r)
    \/ \E u \in AuthSubjects, p \in Passwords : AuthenticateUser(u, p)
    \/ \E tok \in Presentable : RefreshAccessToken(tok)
    \/ \E tok \in Presentable : Logout(tok)
    \/ \E tok \in Presentable : GetCurrentUser(tok)

SpecAuth == Init /\ [][AuthNext]_vars

\* ------------------------- refresh_access_token, one await at a time
\* the call arrives
RefreshStart(w, tok) ==
    /\ rf[w].pc = "idle"
    /\ rf' = [rf EXCEPT ![w] = [pc |-> "check", tok |-> tok, res |-> "none"]]
    /\ UNCHANGED <<tokenVars, userVars, regVars>>
    /\ UNCHANGED <<recipeVars, mealVars>>

\* jwt.decode, the type test, and await redis_client.is_token_revoked
RefreshChecked(w) ==
    IF ~JwtDecodeOk(rf[w].tok, now) \/ rf[w].tok.type # "refresh"
          \/ is_token_revoked(rf[w].tok, blacklist, now)
    THEN [rf[w] EXCEPT !.pc = "done", !.res = RaiseExc("InvalidToken")]
    ELSE [rf[w] EXCEPT !.pc = "lookup"]
RefreshCheck(w) ==
    /\ rf[w].pc = "check"
    /\ rf' = [rf EXCEPT ![w] = RefreshChecked(w)]
    /\ UNCHANGED <<tokenVars, userVars, regVars>>
    /\ UNCHANGED <<recipeVars, mealVars>>

\* await self.user_repo.get_user_by_username(username)
RefreshLookup(w) ==
    /\ rf[w].pc = "lookup"
    /\ rf' = [rf EXCEPT ![w] =
                IF get_user_by_username(rf[w].tok.sub) = NoUser
                THEN [@ EXCEPT !.pc = "done", !.res = RaiseExc("InvalidToken")]
                ELSE [@ EXCEPT !.pc = "revoke"]]
    /\ UNCHANGED <<tokenVars, userVars, regVars>>
    /\ UNCHANGED <<recipeVars, mealVars>>

\* await redis_client.add_to_blacklist when ttl > 0, then _create_user_token,
\* which does not suspend
RefreshRevoke(w) ==
    /\ rf[w].pc = "revoke"
    /\ Cardinality(issued \cup NewTokens(rf[w].tok.sub, now)) <= MaxIssued
    /\ blacklist' = IF Ttl(rf[w].tok, now) > 0
                    THEN add_to_blacklist(rf[w].tok, Ttl(rf[w].tok, now), blacklist, now)
                    ELSE blacklist
    /\ written' = IF Ttl(rf[w].tok, now) > 0 THEN written \cup {rf[w].tok} ELSE written
    /\ issued' = issued \cup NewTokens(rf[w].tok.sub, now)
    /\ rotated' = rotated \cup {rf[w].tok}
    /\ rf' = [rf EXCEPT ![w] = [@ EXCEPT !.pc = "done", !.res = "ok"]]
    /\ last' = NoLast
    /\ UNCHANGED <<now, loggedOut, userVars, regVars>>
    /\ UNCHANGED <<recipeVars, mealVars>>

\* Concurrent refresh calls after a registration and logins.
RefreshRaceNext ==
    \/ \E p \in {"pw1"} : nextUserId <= MaxUserRows /\ RegisterLookup("w1", "alice", p)
    \/ RegisterPost("w1")
    \/ RegisterInsert("w1")
    \/ RegisterReturn("w1")
    \/ \E u \in AuthSubjects, p \in Passwords : AuthenticateUser(u, p)
    \/ \E w \in Workers, tok \in Presentable : RefreshStart(w, tok)
    \/ \E w \in Workers : RefreshCheck(w)
    \/ \E w \in Workers : RefreshLookup(w)
    \/ \E w \in Workers : RefreshRevoke(w)
    \/ \E tok \in Presentable : Logout(tok)

SpecRefreshRace == Init /\ [][RefreshRaceNext]_vars

\* The Authorization headers of a logout request: none, "Bearer <token>", or
\* the bare token.
Authorizations ==
    {<<>>} \cup {<<"Bearer", tok>> : tok \in Presentable} \cup {<<tok>> : tok \in Presentable}

\* Logout requests between logins, refreshes and the clock.
LogoutNext ==
    \/ Tick
    \/ \E p \in {"pw1"} : nextUserId <= MaxUserRows /\ RegisterLookup("w1", "alice", p)
    \/ RegisterPost("w1")
    \/ RegisterInsert("w1")
    \/ RegisterReturn("w1")
    \/ \E u \in AuthSubjects, p \in Passwords : AuthenticateUser(u, p)
    \/ \E tok \in Presentable : RefreshAccessToken(tok)
    \/ \E a \in Authorizations : LogoutRequest(a)

SpecLogout == Init /\ [][LogoutNext]_vars

\* Requests to the recipe service that carry the tokens the authentication
\* service has issued.
GatewayNext ==
    \/ Tick
    \/ \E p \in {"pw1"} : nextUserId <= MaxUserRows /\ RegisterLookup("w1", "alice", p)
    \/ RegisterPost("w1")
    \/ RegisterInsert("w1")
    \/ RegisterReturn("w1")
    \/ \E r \in users : DeleteUser(r)
    \/ \E u \in AuthSubjects, p \in Passwords : AuthenticateUser(u, p)
    \/ \E tok \in Presentable : Logout(tok)
    \/ \E tok \in Presentable, authUp \in BOOLEAN, L \in IngredientLists :
          CreateRecipeRequest(tok, authUp, L)

SpecGateway == Init /\ [][GatewayNext]_vars

\* Logins against accounts that are registered, banned and removed.
LoginNext ==
    \/ Tick
    \/ \E p \in {"pw1"} : nextUserId <= MaxUserRows /\ RegisterLookup("w1", "alice", p)
    \/ RegisterPost("w1")
    \/ RegisterInsert("w1")
    \/ RegisterReturn("w1")
    \/ \E r \in users : DeactivateUser(r)
    \/ \E r \in users : DeleteUser(r)
    \/ \E u \in AuthSubjects, p \in Passwords : AuthenticateUser(u, p)

SpecLogin == Init /\ [][LoginNext]_vars

\* Registration alone: every worker serves registrations concurrently.
UsersNext ==
    \/ \E w \in Workers, u \in Usernames, p \in Passwords : RegisterLookup(w, u, p)
    \/ \E w \in Workers : RegisterPost(w)
    \/ \E w \in Workers : RegisterInsert(w)
    \/ \E w \in Workers : RegisterReturn(w)

SpecUsers == Init /\ [][UsersNext]_vars

\* ---------------------------------------------------------- recipe actions
authSide == <<now, blacklist, issued, loggedOut, rotated, written, last, users, nextUserId,
              reg, regOk>>

\* rows the requests in flight may still insert
RecipesInFlight == Cardinality({w \in Workers : imp[w].pc \in {"fetch", "post", "insert"}})
ReviewsInFlight ==
    Cardinality({w \in Workers : imp[w].mode = "review" /\ imp[w].pc # "idle"
                                   /\ imp[w].pc # "done"})

\* RecipeService.create_custom_recipe (POST /recipes/ of the database service)
CreateCustomRecipe(u, name, L) ==
    /\ nextRecipeId + RecipesInFlight <= MaxRecipes
    /\ recipes' = recipes \cup {CustomRecipeRow(nextRecipeId, u, name)}
    /\ ingredients' = ingredients \cup IngredientRows(nextRecipeId, L)
    /\ nextRecipeId' = nextRecipeId + 1
    /\ lastR' = NoLastR
    /\ UNCHANGED <<reviews, nextReviewId, imp, shadowRet>>
    /\ UNCHANGED <<authSide, mealVars, sideVars>>

\* RecipeService.update_custom_recipe (PUT /recipes/{id} of the database service)
UpdateCustomRecipe(id, upd) ==
    /\ get_custom_recipe_by_id(id) # NoRecipe
    /\ LET row == get_custom_recipe_by_id(id)
       IN /\ recipes' = (recipes \ {row}) \cup {UpdatedRow(row, upd)}
          /\ ingredients' = UpdatedIngredients(id, upd)
          /\ lastR' = NoLastR
    /\ UNCHANGED <<reviews, nextRecipeId, nextReviewId, imp, shadowRet>>
    /\ UNCHANGED <<authSide, mealVars, sideVars>>

\* The effect of a committed delete of recipe id.
DeletedKeepIngredients(id) ==
    /\ recipes' = {r \in recipes : r.id # id}
    /\ ingredients' = ingredients
    /\ shadowRet' = [e \in ExternalIds |-> IF shadowRet[e] = id THEN 0 ELSE shadowRet[e]]
    /\ imp' = [w \in Workers |->
                 IF imp[w].prevId = id THEN [imp[w] EXCEPT !.prevId = 0] ELSE imp[w]]
Deleted(id) ==
    /\ recipes' = {r \in recipes : r.id # id}
    /\ ingredients' = {i \in ingredients : i.recipe_id # id}
    /\ shadowRet' = [e \in ExternalIds |-> IF shadowRet[e] = id THEN 0 ELSE shadowRet[e]]
    /\ imp' = [w \in Workers |->
                 IF imp[w].prevId = id THEN [imp[w] EXCEPT !.prevId = 0] ELSE imp[w]]

\* RecipeService.delete_custom_recipe (DELETE /recipes/{id} of the database service)
DeleteCustomRecipe(id) ==
    /\ IF get_custom_recipe_by_id(id) = NoRecipe
       THEN /\ UNCHANGED <<recipes, ingredients, shadowRet, imp>>
            /\ lastR' = [NoLastR EXCEPT !.op = "db_delete", !.res = "False"]
       ELSE IF DeleteBlocked(id)
       THEN /\ UNCHANGED <<recipes, ingredients, shadowRet, imp>>
            /\ lastR' = [NoLastR EXCEPT !.op = "db_delete", !.res = "IntegrityError"]
       ELSE /\ Deleted(id)
            /\ lastR' = [NoLastR EXCEPT !.op = "db_delete", !.res = "True",
                                        !.same = FALSE]
    /\ UNCHANGED <<reviews, nextRecipeId, nextReviewId>>
    /\ UNCHANGED <<authSide, mealVars, sideVars>>

\* PUT /recipes/{recipe_id} of the recipe service: RecipeService.update_recipe
\* and the endpoint that maps its result
UpdateRecipe(user_id, id, upd, up) ==
    LET existing == GetRecipe(id, up)
        row == get_custom_recipe_by_id(id)
        code == IF ~existing.found THEN 404
                ELSE IF existing.source = "external" THEN 403
                ELSE IF existing.user_id # user_id THEN 403
                ELSE 200
    IN /\ IF code = 200
          THEN /\ recipes' = (recipes \ {row}) \cup {UpdatedRow(row, upd)}
               /\ ingredients' = UpdatedIngredients(id, upd)
          ELSE UNCHANGED <<recipes, ingredients>>
       /\ lastR' = [NoLastR EXCEPT !.op = "update", !.user = user_id, !.rid = id,
                                   !.owner = row.user_id, !.fwd = (code = 200),
                                   !.same = (code # 200),
                                   !.res = IF code = 200 THEN "ok" ELSE "error",
                                   !.http = code]
       /\ UNCHANGED <<reviews, nextRecipeId, nextReviewId, imp, shadowRet>>
       /\ UNCHANGED <<authSide, mealVars, sideVars>>

\* DELETE /recipes/{recipe_id} of the recipe service: RecipeService.delete_recipe
\* and the endpoint that maps its result.  A committed delete is answered 204,
\* which _req turns into True; the endpoint then evaluates "error" in True.
DeleteRecipe(user_id, id, up) ==
    LET existing == GetRecipe(id, up)
        row == get_custom_recipe_by_id(id)
        res == IF ~existing.found THEN "error404"
               ELSE IF existing.user_id = 0 THEN "TypeError"
               ELSE IF existing.user_id # user_id THEN "error403"
               ELSE IF DeleteBlocked(id) THEN "error"
               ELSE "True"
        http == CASE res = "error404" -> 404
                  [] res = "error403" -> 403
                  [] res = "error" -> 400
                  [] OTHER -> 500
    IN /\ IF res = "True"
          THEN Deleted(id)
          ELSE UNCHANGED <<recipes, ingredients, shadowRet, imp>>
       /\ lastR' = [NoLastR EXCEPT !.op = "delete", !.user = user_id, !.rid = id,
                                   !.owner = row.user_id,
                                   !.fwd = (res \in {"error", "True"}),
                                   !.same = (res # "True"), !.res = res, !.http = http]
       /\ UNCHANGED <<reviews, nextRecipeId, nextReviewId>>
       /\ UNCHANGED <<authSide, mealVars, sideVars>>

\* GET /recipes/{recipe_id} of the recipe service: RecipeService.get_recipe
\* and the endpoint, which answers 404 for no result
RecipeById(id, source, up) ==
    LET result == GetRecipeFrom(id, source, up)
        row == get_custom_recipe_by_id(id)
    IN /\ lastR' = [NoLastR EXCEPT !.op = "get", !.rid = id, !.mode = source,
                                   !.owner = row.user_id,
                                   !.res = result.source,
                                   !.http = IF result.found THEN 200 ELSE 404,
                                   !.db = (source # "external"),
                                   !.ext = (source = "external"
                                              \/ result.source # "internal")]
       /\ UNCHANGED <<recipes, ingredients, reviews, nextRecipeId, nextReviewId, imp,
                       shadowRet>>
       /\ UNCHANGED <<authSide, mealVars, sideVars>>

\* RecipeService.search_unified(query=q): the internal search (dbUp: the
\* database service answers), then the external one (up: the fetch service
\* answers 200)
SearchUnified(q, dbUp, up) ==
    LET resp == DbSearch(q)
        internal_data == IF dbUp /\ resp.status = 200 THEN resp.body ELSE {}
        known_external_ids ==
            {DictGet(r, "external_id", NoExt) : r \in internal_data} \ {NoExt}
        internal == {[id |-> r.id, external_id |-> DictGet(r, "external_id", NoExt),
                      source |-> "internal"] : r \in internal_data}
        meals == IF up THEN ExternalMeals(q) ELSE {}
        external == {[id |-> 0, external_id |-> Str(n), source |-> "external"] :
                        n \in {m \in meals : Str(m) \notin known_external_ids}}
    IN /\ lastR' = [NoLastR EXCEPT !.op = "search", !.mode = q,
                                   !.got = internal \cup external,
                                   !.res = IF ~dbUp THEN "down"
                                           ELSE IF resp.status = 200 THEN "ok"
                                           ELSE IF resp.status = 404 THEN "none"
                                           ELSE "error",
                                   !.db = TRUE, !.ext = up]
       /\ UNCHANGED <<recipes, ingredients, reviews, nextRecipeId, nextReviewId, imp,
                       shadowRet>>
       /\ UNCHANGED <<authSide, mealVars, sideVars>>

\* What a call does once ensure_shadow_recipe has its result rid (0: None).
AfterShadowNoCheck(rec, rid) ==
    IF rec.mode \in {"import", "shadow"}
    THEN [rec EXCEPT !.pc = "done", !.rid = rid, !.res = "ok"]
    ELSE [rec EXCEPT !.pc = "review", !.rid = rid]
AfterShadow(rec, rid) ==
    IF rec.mode \in {"import", "shadow"}
    THEN [rec EXCEPT !.pc = "done", !.rid = rid,
                     !.res = IF rid # 0 THEN "ok" ELSE "none"]
    ELSE IF rid = 0
    THEN [rec EXCEPT !.pc = "done", !.rid = 0, !.res = "error"]
    ELSE [rec EXCEPT !.pc = "review", !.rid = rid]

Returned(ext, rid) == IF rid # 0 THEN [shadowRet EXCEPT ![ext] = rid] ELSE shadowRet

\* RecipeService.ensure_shadow_recipe, step 1: the lookup by external id
EnsureShadowStart(w, mode, u, ext) ==
    /\ imp[w].pc = "idle"
    /\ nextRecipeId + RecipesInFlight <= MaxRecipes
    /\ mode = "review" => nextReviewId + ReviewsInFlight <= MaxReviews
    /\ LET check == LookupExternalRoute(ext)
           rec == [ImpIdle EXCEPT !.mode = mode, !.user = u, !.ext = ext,
                                  !.byExt = TRUE, !.prevId = shadowRet[ext]]
       IN /\ imp' = [imp EXCEPT ![w] =
                       IF check # NoRecipe THEN AfterShadow(rec, check.id)
                       ELSE [rec EXCEPT !.pc = "fetch"]]
          /\ shadowRet' = IF check # NoRecipe THEN Returned(ext, check.id) ELSE shadowRet
    /\ UNCHANGED <<recipes, ingredients, reviews, nextRecipeId, nextReviewId>>
    /\ lastR' = NoLastR
    /\ UNCHANGED <<authSide, mealVars, sideVars>>

\* POST /recipes/shadow sent to the database service directly: the call
\* begins at create_shadow_recipe
CreateShadowRecipe(w, ext) ==
    /\ imp[w].pc = "idle"
    /\ nextRecipeId + RecipesInFlight <= MaxRecipes
    /\ imp' = [imp EXCEPT ![w] =
                 [ImpIdle EXCEPT !.pc = "post", !.mode = "shadow", !.ext = ext,
                                 !.prevId = shadowRet[ext]]]
    /\ UNCHANGED <<recipes, ingredients, reviews, nextRecipeId, nextReviewId, shadowRet>>
    /\ lastR' = NoLastR
    /\ UNCHANGED <<authSide, mealVars, sideVars>>

\* ReviewService.create_review with a recipe_id, or with neither identifier
CreateReviewStart(w, u, rid) ==
    /\ imp[w].pc = "idle"
    /\ nextReviewId + ReviewsInFlight <= MaxReviews
    /\ imp' = [imp EXCEPT ![w] =
                 IF rid # 0
                 THEN [ImpIdle EXCEPT !.pc = "review", !.mode = "review", !.user = u,
                                      !.rid = rid]
                 ELSE [ImpIdle EXCEPT !.pc = "done", !.mode = "review", !.user = u,
                                      !.res = "error"]]
    /\ UNCHANGED <<recipes, ingredients, reviews, nextRecipeId, nextReviewId, shadowRet>>
    /\ lastR' = NoLastR
    /\ UNCHANGED <<authSide, mealVars, sideVars>>

\* step 2: _fetch_external_recipe
EnsureShadowFetch(w, up) ==
    /\ imp[w].pc = "fetch"
    /\ imp' = [imp EXCEPT ![w] =
                 IF FetchExternal(imp[w].ext[2], up)
                 THEN [@ EXCEPT !.pc = "post", !.fetched = TRUE]
                 ELSE AfterShadow(@, 0)]
    /\ UNCHANGED <<recipes, ingredients, reviews, nextRecipeId, nextReviewId, shadowRet>>
    /\ lastR' = NoLastR
    /\ UNCHANGED <<authSide, mealVars, sideVars>>

\* step 3: POST /recipes/shadow reaches create_shadow_recipe, which looks the
\* external id up and returns the id of the row it finds
EnsureShadowPost(w) ==
    /\ imp[w].pc = "post"
    /\ LET existing == get_recipe_by_external_id(imp[w].ext)
       IN /\ imp' = [imp EXCEPT ![w] =
                       IF existing # NoRecipe THEN AfterShadow(@, existing.id)
                       ELSE [@ EXCEPT !.pc = "insert"]]
          /\ shadowRet' = IF existing # NoRecipe THEN Returned(imp[w].ext, existing.id)
                          ELSE shadowRet
    /\ UNCHANGED <<recipes, ingredients, reviews, nextRecipeId, nextReviewId>>
    /\ lastR' = NoLastR
    /\ UNCHANGED <<authSide, mealVars, sideVars>>

\* step 4: create_shadow_recipe inserts and commits; an IntegrityError is
\* answered 500, _req returns {"error": ...} and .get("id") is None
EnsureShadowInsert(w) ==
    /\ imp[w].pc = "insert"
    /\ LET db == InsertShadow(imp[w].ext, "meal")
           rid == IF db.ok THEN nextRecipeId ELSE 0
       IN /\ recipes' = db.rows
          /\ nextRecipeId' = IF db.ok THEN nextRecipeId + 1 ELSE nextRecipeId
          /\ imp' = [imp EXCEPT ![w] =
                       AfterShadow([@ EXCEPT !.created = db.ok, !.raced = ~db.ok], rid)]
          /\ shadowRet' = Returned(imp[w].ext, rid)
    /\ UNCHANGED <<ingredients, reviews, nextReviewId>>
    /\ lastR' = NoLastR
    /\ UNCHANGED <<authSide, mealVars, sideVars>>

\* ReviewService.create_review, last step: POST /reviews/ inserts the review
\* (reviews.recipe_id references recipes.id)
CreateReviewPost(w) ==
    /\ imp[w].pc = "review"
    /\ LET rid == imp[w].rid
           row == get_custom_recipe_by_id(rid)
           new == ReviewRow(nextReviewId, imp[w].user, rid)
       IN IF row # NoRecipe
          THEN /\ reviews' = reviews \cup {new}
               /\ nextReviewId' = nextReviewId + 1
               /\ imp' = [imp EXCEPT ![w] =
                            [@ EXCEPT !.pc = "done", !.res = "ok",
                                      !.held = \E r \in recipes :
                                                  /\ r.id = new.recipe_id
                                                  /\ ~r.is_custom
                                                  /\ r.external_id = imp[w].ext]]
          ELSE /\ UNCHANGED <<reviews, nextReviewId>>
               /\ imp' = [imp EXCEPT ![w] =
                            [@ EXCEPT !.pc = "done", !.res = "error", !.fkFail = TRUE]]
    /\ UNCHANGED <<recipes, ingredients, nextRecipeId, shadowRet>>
    /\ lastR' = NoLastR
    /\ UNCHANGED <<authSide, mealVars, sideVars>>

\* the response has been sent; the worker takes the next request
ImportReturn(w) ==
    /\ imp[w].pc = "done"
    /\ imp' = [imp EXCEPT ![w] = ImpIdle]
    /\ UNCHANGED <<recipes, ingredients, reviews, nextRecipeId, nextReviewId, shadowRet>>
    /\ lastR' = NoLastR
    /\ UNCHANGED <<authSide, mealVars, sideVars>>

\* DELETE /reviews/{review_id} of the recipe service: ReviewService.delete_review
\* and the endpoint that maps its result.  The database answers the DELETE
\* with 204, which _req turns into True.
DeleteReview(user_id, review_id, up) ==
    LET review == get_review_by_id(review_id)
        recipe == GetRecipe(review.recipe_id, up)
        code == IF review = NoReview THEN 404
                ELSE IF MayDeleteReview(user_id, review, recipe) THEN 200
                ELSE 403
    IN /\ reviews' = IF code = 200 THEN reviews \ {review} ELSE reviews
       /\ lastR' = [NoLastR EXCEPT !.op = "delete_review", !.user = user_id,
                                   !.rid = review_id, !.author = review.user_id,
                                   !.owner = get_custom_recipe_by_id(review.recipe_id).user_id,
                                   !.fwd = (code = 200), !.same = (code # 200),
                                   !.res = IF code = 200 THEN "True" ELSE "error",
                                   !.http = code]
       /\ UNCHANGED <<recipes, ingredients, nextRecipeId, nextReviewId, imp, shadowRet>>
       /\ UNCHANGED <<authSide, mealVars, sideVars>>

RecipeIds == 1..MaxRecipes
ReviewIds == 1..MaxReviews
ReviewWorkers == {"w1"}
ReviewerIds == {1}
AuthorIds == UserIds

\* The recipe and review tables of the database service under the requests
\* that create, import, review, update and delete recipes.
RecipeNext ==
    \/ \E u \in AuthorIds, L \in IngredientLists : CreateCustomRecipe(u, "n1", L)
    \/ \E id \in RecipeIds, upd \in Updates : UpdateCustomRecipe(id, upd)
    \/ \E id \in RecipeIds : DeleteCustomRecipe(id)
    \/ \E w \in Workers, ext \in ExternalIds : EnsureShadowStart(w, "import", 0, ext)
    \/ \E w \in ReviewWorkers, u \in ReviewerIds, ext \in ExternalIds :
          EnsureShadowStart(w, "review", u, ext)
    \/ \E w \in ReviewWorkers, u \in ReviewerIds, rid \in {0} \cup RecipeIds :
          CreateReviewStart(w, u, rid)
    \/ \E w \in Workers, ext \in ExternalIds : CreateShadowRecipe(w, ext)
    \/ \E w \in Workers, up \in BOOLEAN : EnsureShadowFetch(w, up)
    \/ \E w \in Workers : EnsureShadowPost(w)
    \/ \E w \in Workers : EnsureShadowInsert(w)
    \/ \E w \in Workers : CreateReviewPost(w)
    \/ \E w \in Workers : ImportReturn(w)

SpecRecipes == Init /\ [][RecipeNext]_vars

\* the source query parameter of GET /recipes/{recipe_id}: absent or "external"
Sources == {"none", "external"}

\* The update / delete endpoints of the recipe service over the recipes and
\* reviews one request handler at a time can leave behind.
CrudNext ==
    \/ \E u \in UserIds, L \in IngredientLists : CreateCustomRecipe(u, "n1", L)
    \/ \E u \in UserIds, id \in RecipeIds, upd \in Updates, up \in BOOLEAN :
          UpdateRecipe(u, id, upd, up)
    \/ \E u \in UserIds, id \in RecipeIds, up \in BOOLEAN : DeleteRecipe(u, id, up)
    \/ \E id \in RecipeIds, source \in Sources, up \in BOOLEAN : RecipeById(id, source, up)
    \/ \E ext \in ExternalIds : CreateShadowRecipe("w1", ext)
    \/ EnsureShadowPost("w1")
    \/ EnsureShadowInsert("w1")
    \/ \E u \in ReviewerIds, rid \in RecipeIds : CreateReviewStart("w1", u, rid)
    \/ CreateReviewPost("w1")
    \/ ImportReturn("w1")

SpecCrud == Init /\ [][CrudNext]_vars

\* Review deletes by every user over custom and shadow recipes and their
\* reviews.
ReviewDeleteNext ==
    \/ \E u \in UserIds, L \in IngredientLists : CreateCustomRecipe(u, "n1", L)
    \/ \E ext \in ExternalIds : CreateShadowRecipe("w1", ext)
    \/ EnsureShadowPost("w1")
    \/ EnsureShadowInsert("w1")
    \/ \E u \in ReviewerIds, rid \in RecipeIds : CreateReviewStart("w1", u, rid)
    \/ CreateReviewPost("w1")
    \/ ImportReturn("w1")
    \/ \E u \in UserIds, v \in ReviewIds, up \in BOOLEAN : DeleteReview(u, v, up)

SpecReviewDelete == Init /\ [][ReviewDeleteNext]_vars

\* Searches by name over custom and shadow recipes.
RecipeNames == {"n1", "meal"}
Queries == {"n1", "meal"}
SearchNext ==
    \/ \E u \in UserIds, name \in RecipeNames, L \in IngredientLists :
          CreateCustomRecipe(u, name, L)
    \/ \E ext \in ExternalIds : CreateShadowRecipe("w1", ext)
    \/ EnsureShadowPost("w1")
    \/ EnsureShadowInsert("w1")
    \/ ImportReturn("w1")
    \/ \E id \in RecipeIds : DeleteCustomRecipe(id)
    \/ \E q \in Queries, dbUp \in BOOLEAN, up \in BOOLEAN : SearchUnified(q, dbUp, up)

SpecSearch == Init /\ [][SearchNext]_vars

\* ------------------------------------------------------------ review query
SearchModes == {"auto", "external", "internal"}
QueryIds == RecipeIds \cup MealIds

\* ReviewService.get_reviews_by_recipe, the recipe statement: the rows it
\* selects for identifier x (a string of digits) in each search mode
MatchingRecipes(x, mode) ==
    {r \in recipes :
        CASE mode = "external" -> r.external_id = Str(x)
          [] mode = "internal" -> r.id = x
          [] OTHER -> (r.external_id = Str(x) \/ r.id = x)}

\* ReviewService.get_reviews_by_recipe of the database service.  The recipe
\* statement has no ORDER BY, so first() may return any selected row.
GetReviewsByRecipe(x, mode) ==
    /\ \E pick \in (IF MatchingRecipes(x, mode) = {} THEN {NoRecipe}
                     ELSE MatchingRecipes(x, mode)) :
          lastR' = [NoLastR EXCEPT
                      !.op = "reviews", !.mode = mode, !.rid = x,
                      !.matches = Cardinality(MatchingRecipes(x, mode)),
                      !.picked = pick.id,
                      !.got = IF pick = NoRecipe THEN {}
                              ELSE {v.id : v \in {z \in reviews : z.recipe_id = pick.id}}]
    /\ UNCHANGED <<recipes, ingredients, reviews, nextRecipeId, nextReviewId, imp,
                   shadowRet>>
    /\ UNCHANGED <<authSide, mealVars, sideVars>>

\* Review queries over the recipes and reviews that requests leave behind.
ReviewNext ==
    \/ \E u \in AuthorIds, L \in IngredientLists : CreateCustomRecipe(u, "n1", L)
    \/ \E ext \in ExternalIds : CreateShadowRecipe("w1", ext)
    \/ EnsureShadowPost("w1")
    \/ EnsureShadowInsert("w1")
    \/ \E u \in ReviewerIds, rid \in RecipeIds : CreateReviewStart("w1", u, rid)
    \/ CreateReviewPost("w1")
    \/ ImportReturn("w1")
    \/ \E x \in QueryIds, mode \in SearchModes : GetReviewsByRecipe(x, mode)

SpecReviews == Init /\ [][ReviewNext]_vars

\* ------------------------------------------------- ingredients of a recipe
\* request bodies: an empty list, a name given twice, a missing measure
IngredientPayloads ==
    {<<>>, <<Ing("egg", "2")>>, <<Ing("egg", "2"), Ing("egg", "2")>>,
     <<Ing("salt", NULL), Ing("egg", "2")>>}
\* RecipeUpdate bodies with and without an ingredients field
UpdatePayloads ==
    {[has_name |-> TRUE, name |-> "n2", has_ings |-> TRUE, ings |-> <<Ing("salt", NULL)>>],
     [has_name |-> FALSE, name |-> "", has_ings |-> TRUE, ings |-> <<>>],
     [has_name |-> TRUE, name |-> "n3", has_ings |-> FALSE, ings |-> <<>>]}

\* the ingredients of a request body, counted with multiplicity
IngredientBag(L) ==
    [e \in {L[i] : i \in 1..Len(L)} |-> Cardinality({i \in 1..Len(L) : L[i] = e})]
\* CustomRecipeResponse.ingredients of recipe id over RecipeIngredient rows:
\* IngredientResponse reads ingredient_name as name, and measure
ResponseIngredients(id, rows) ==
    LET mine == {r \in rows : r.recipe_id = id}
        shown(r) == Ing(r.ingredient_name, r.measure)
    IN [e \in {shown(r) : r \in mine} |-> Cardinality({r \in mine : shown(r) = e})]

\* custom recipes created and updated with the bodies above
IngredientNext ==
    \/ \E u \in AuthorIds, L \in IngredientPayloads : CreateCustomRecipe(u, "n1", L)
    \/ \E id \in RecipeIds, upd \in UpdatePayloads : UpdateCustomRecipe(id, upd)

SpecIngredients == Init /\ [][IngredientNext]_vars

\* ----------------------------------------------- meal plans (database service)
MaxPlans == 2
MaxItems == 2
\* num_days of the generate requests
NumDays == {1}
PlanIds == 1..MaxPlans
ItemIds == 1..MaxItems
meal_types == <<"breakfast", "lunch", "dinner">>

\* INTERNAL_SERVICE_SECRET, the default both services read
InternalSecret == "internal-service-secret-key"
\* str.lower() on the scheme words the requests carry
Lower(w) ==
    CASE w = "Bearer" -> "bearer"
      [] w = "BEARER" -> "bearer"
      [] w = "Basic" -> "basic"
      [] OTHER -> w
\* Authorization header values as authorization.split() sees them; <<>> is
\* the missing (or empty) header, "user-jwt" a valid access token of a user
Headers ==
    {<<>>, <<"Bearer", InternalSecret>>, <<"bearer", InternalSecret>>,
     <<"Basic", InternalSecret>>, <<"Bearer", "wrong">>, <<"Bearer", "user-jwt">>,
     <<"Bearer">>, <<"Bearer", InternalSecret, "x">>}

\* verify_internal_service_token: the status it raises, or 200 when it returns
VerifyAnyBearer(h) ==
    IF h = <<>> THEN 401
    ELSE IF Len(h) # 2 THEN 401
    ELSE IF Lower(h[1]) # "bearer" THEN 401
    ELSE 200
verify_internal_service_token(h) ==
    IF h = <<>> THEN 401
    ELSE IF Len(h) # 2 THEN 401          \* scheme, token = ... raises ValueError
    ELSE IF Lower(h[1]) # "bearer" THEN 401
    ELSE IF h[2] # InternalSecret THEN 401
    ELSE 200

\* MealService: the rows each statement leaves
PlanRow(id, user) == [id |-> id, user_id |-> user]
ItemRow(id, plan, mealdb, day, type) ==
    [id |-> id, meal_plan_id |-> plan, mealdb_id |-> mealdb, meal_date |-> day,
     meal_type |-> type]
PlanExists(id) == \E p \in mealPlans : p.id = id
ItemExists(id) == \E i \in mealItems : i.id = id
\* DELETE FROM meal_plans WHERE id = %s, with
\* meal_plan_id INT REFERENCES meal_plans(id) ON DELETE CASCADE
ItemsAfterPlanDeleteNoCascade(id) == mealItems
ItemsAfterPlanDelete(id) == {i \in mealItems : i.meal_plan_id # id}
PlansAfterPlanDelete(id) == {p \in mealPlans : p.id # id}
\* UPDATE meal_plan_items SET ... WHERE id = %s
ItemUpdates == {[mealdb_id |-> 9, meal_type |-> NULL], [mealdb_id |-> 0, meal_type |-> NULL]}
UpdatedItem(i, u) ==
    [i EXCEPT !.mealdb_id = IF u.mealdb_id # 0 THEN u.mealdb_id ELSE @,
              !.meal_type = IF u.meal_type # NULL THEN u.meal_type ELSE @]

MealRoutes ==
    {"create_meal_plan", "get_meal_plan", "get_meal_plans_by_user", "delete_meal_plan",
     "add_meal_item", "get_meal_plan_items", "update_meal_item", "delete_meal_item"}
\* path parameters and bodies: each route reads only its own
MealArgs(route) ==
    [user_id : {1},
     plan_id : IF route \in {"get_meal_plan", "delete_meal_plan", "add_meal_item"}
               THEN PlanIds ELSE {1},
     item_id : IF route \in {"update_meal_item", "delete_meal_item"} THEN ItemIds ELSE {1},
     mealdb_id : {1}, meal_type : {"lunch"},
     upd : IF route = "update_meal_item" THEN ItemUpdates
           ELSE {[mealdb_id |-> 0, meal_type |-> NULL]}]

Answer(route, h, http, same, removed) ==
    [route |-> route, hdr |-> h, id |-> 0, http |-> http, performed |-> TRUE,
     same |-> same, removed |-> removed]

\* The route bodies, reached once the dependency returned.  dbOk = FALSE is
\* the statement raising (connection lost, a foreign key violated), which
\* MealService catches.
RouteBody(route, h, a, dbOk) ==
    CASE route = "create_meal_plan" ->
            IF dbOk
            THEN /\ mealPlans' = mealPlans \cup {PlanRow(nextPlanId, a.user_id)}
                 /\ nextPlanId' = nextPlanId + 1
                 /\ lastM' = Answer(route, h, 201, FALSE, 0)
                 /\ UNCHANGED <<mealItems, nextItemId>>
            ELSE /\ lastM' = Answer(route, h, 400, TRUE, 0)
                 /\ UNCHANGED <<mealPlans, mealItems, nextPlanId, nextItemId>>
      [] route = "delete_meal_plan" ->
            IF dbOk /\ PlanExists(a.plan_id)
            THEN /\ mealPlans' = PlansAfterPlanDelete(a.plan_id)
                 /\ mealItems' = ItemsAfterPlanDelete(a.plan_id)
                 /\ lastM' = [Answer(route, h, 204, FALSE,
                        Cardinality(mealItems) - Cardinality(ItemsAfterPlanDelete(a.plan_id)))
                              EXCEPT !.id = a.plan_id]
                 /\ UNCHANGED <<nextPlanId, nextItemId>>
            ELSE /\ lastM' = Answer(route, h, 404, TRUE, 0)
                 /\ UNCHANGED <<mealPlans, mealItems, nextPlanId, nextItemId>>
      [] route = "add_meal_item" ->
            IF dbOk /\ PlanExists(a.plan_id)
            THEN /\ mealItems' = mealItems \cup
                        {ItemRow(nextItemId, a.plan_id, a.mealdb_id, 1, a.meal_type)}
                 /\ nextItemId' = nextItemId + 1
                 /\ lastM' = Answer(route, h, 201, FALSE, 0)
                 /\ UNCHANGED <<mealPlans, nextPlanId>>
            ELSE /\ lastM' = Answer(route, h, 400, TRUE, 0)
                 /\ UNCHANGED <<mealPlans, mealItems, nextPlanId, nextItemId>>
      [] route = "update_meal_item" ->
            IF dbOk /\ ItemExists(a.item_id)
                    /\ (a.upd.mealdb_id # 0 \/ a.upd.meal_type # NULL)
            THEN /\ mealItems' = {IF i.id = a.item_id THEN UpdatedItem(i, a.upd) ELSE i :
                                    i \in mealItems}
                 /\ lastM' = Answer(route, h, 200, mealItems' = mealItems, 0)
                 /\ UNCHANGED <<mealPlans, nextPlanId, nextItemId>>
            ELSE /\ lastM' = Answer(route, h, 404, TRUE, 0)
                 /\ UNCHANGED <<mealPlans, mealItems, nextPlanId, nextItemId>>
      [] route = "delete_meal_item" ->
            IF dbOk /\ ItemExists(a.item_id)
            THEN /\ mealItems' = {i \in mealItems : i.id # a.item_id}
                 /\ lastM' = [Answer(route, h, 204, FALSE, 1) EXCEPT !.id = a.item_id]
                 /\ UNCHANGED <<mealPlans, nextPlanId, nextItemId>>
            ELSE /\ lastM' = Answer(route, h, 404, TRUE, 0)
                 /\ UNCHANGED <<mealPlans, mealItems, nextPlanId, nextItemId>>
      [] route = "get_meal_plan" ->
            /\ lastM' = Answer(route, h, IF PlanExists(a.plan_id) THEN 200 ELSE 404, TRUE, 0)
            /\ UNCHANGED <<mealPlans, mealItems, nextPlanId, nextItemId>>
      [] OTHER ->
            /\ lastM' = Answer(route, h, 200, TRUE, 0)
            /\ UNCHANGED <<mealPlans, mealItems, nextPlanId, nextItemId>>

\* One request to a meal-plan route: Depends(verify_internal_service_token)
\* runs first and its HTTPException ends the request.
MealRequest(route, h, a) ==
    /\ IF verify_internal_service_token(h) # 200
       THEN /\ lastM' = [NoLastM EXCEPT !.route = route, !.hdr = h,
                           !.http = verify_internal_service_token(h)]
            /\ UNCHANGED <<mealPlans, mealItems, nextPlanId, nextItemId>>
       ELSE \E dbOk \in BOOLEAN : RouteBody(route, h, a, dbOk)
    /\ UNCHANGED gen
    /\ UNCHANGED <<authSide, recipeVars, sideVars>>

\* ------------------------------------------- generate_meal_plan (planner)
\* _make_request sends "Bearer " + INTERNAL_SERVICE_SECRET on every call
PlannerHeader == <<"Bearer", InternalSecret>>

\* the dictionary generate_meal_plan returns once the plan row exists
GenerateResultAllOrNothing(slots) == IF \E s \in slots : s.item = 0 THEN "None" ELSE "plan"
GenerateResult(slots) == "plan"

\* generate_meal_plan is called
GenerateStart(user, n) ==
    /\ gen.pc = "idle"
    /\ gen' = [GenIdle EXCEPT !.pc = "create", !.user = user, !.days = n]
    /\ lastM' = NoLastM
    /\ UNCHANGED <<mealPlans, mealItems, nextPlanId, nextItemId>>
    /\ UNCHANGED <<authSide, recipeVars, sideVars>>

\* meal_plan = self.create_meal_plan(...); if not meal_plan: return None
GenerateCreatePlan ==
    /\ gen.pc = "create"
    /\ \E dbOk \in BOOLEAN :
          IF verify_internal_service_token(PlannerHeader) = 200 /\ dbOk
          THEN /\ mealPlans' = mealPlans \cup {PlanRow(nextPlanId, gen.user)}
               /\ nextPlanId' = nextPlanId + 1
               /\ gen' = [gen EXCEPT !.pc = "propose", !.plan = nextPlanId, !.day = 1,
                                     !.t = 1, !.created = TRUE]
          ELSE /\ gen' = [gen EXCEPT !.pc = "done", !.res = "None"]
               /\ UNCHANGED <<mealPlans, nextPlanId>>
    /\ lastM' = NoLastM
    /\ UNCHANGED <<mealItems, nextItemId>>
    /\ UNCHANGED <<authSide, recipeVars, sideVars>>

\* the position after the slot (day, t) of the two nested loops, or the return
NextSlot(g, slots) ==
    IF g.t < Len(meal_types) THEN [g EXCEPT !.pc = "propose", !.t = g.t + 1, !.meal = 0,
                                            !.slots = slots]
    ELSE IF g.day < g.days THEN [g EXCEPT !.pc = "propose", !.day = g.day + 1, !.t = 1,
                                          !.meal = 0, !.slots = slots]
    ELSE [g EXCEPT !.pc = "done", !.meal = 0, !.slots = slots,
                   !.res = GenerateResult(slots)]

\* meal = self.propose_meal(ingredient): a recipe of the catalogue, or None
\* when the proposer answers an error; a slot without a meal is skipped
GeneratePropose ==
    /\ gen.pc = "propose"
    /\ \E meal \in ExternalCatalog \cup {0} :
          gen' = IF meal = 0 THEN NextSlot(gen, gen.slots)
                 ELSE [gen EXCEPT !.pc = "add", !.meal = meal]
    /\ lastM' = NoLastM
    /\ UNCHANGED <<mealPlans, mealItems, nextPlanId, nextItemId>>
    /\ UNCHANGED <<authSide, recipeVars, sideVars>>

\* meal_item = self.add_meal_to_plan(...); the slot is recorded with the item
\* id, or with None when the insertion failed
GenerateAddItem ==
    /\ gen.pc = "add"
    /\ \E dbOk \in BOOLEAN :
          IF verify_internal_service_token(PlannerHeader) = 200 /\ dbOk
                /\ PlanExists(gen.plan)
          THEN /\ mealItems' = mealItems \cup
                      {ItemRow(nextItemId, gen.plan, gen.meal, gen.day, meal_types[gen.t])}
               /\ nextItemId' = nextItemId + 1
               /\ gen' = [NextSlot(gen, gen.slots \cup
                              {[day |-> gen.day, type |-> meal_types[gen.t],
                                item |-> nextItemId]})
                            EXCEPT !.inserted = gen.inserted \cup {nextItemId}]
          ELSE /\ gen' = NextSlot(gen, gen.slots \cup
                              {[day |-> gen.day, type |-> meal_types[gen.t], item |-> 0]})
               /\ UNCHANGED <<mealItems, nextItemId>>
    /\ lastM' = NoLastM
    /\ UNCHANGED <<mealPlans, nextPlanId>>
    /\ UNCHANGED <<authSide, recipeVars, sideVars>>

\* the endpoint answers and the planner serves the next call
GenerateReturn ==
    /\ gen.pc = "done"
    /\ gen' = GenIdle
    /\ lastM' = NoLastM
    /\ UNCHANGED <<mealPlans, mealItems, nextPlanId, nextItemId>>
    /\ UNCHANGED <<authSide, recipeVars, sideVars>>

GenerateStep == GenerateCreatePlan \/ GeneratePropose \/ GenerateAddItem \/ GenerateReturn

\* the database service's meal-plan routes under arbitrary callers
MealNext ==
    \E route \in MealRoutes, h \in Headers : \E a \in MealArgs(route) :
        /\ route = "create_meal_plan" => nextPlanId <= MaxPlans
        /\ route = "add_meal_item" => nextItemId <= MaxItems
        /\ MealRequest(route, h, a)

SpecMeals == Init /\ [][MealNext]_vars

\* the planner generating plans while other internal callers delete
PlannerNext ==
    \/ \E n \in NumDays : nextPlanId <= MaxPlans /\ GenerateStart(1, n)
    \/ GenerateCreatePlan
    \/ GeneratePropose
    \/ (nextItemId <= MaxItems /\ GenerateAddItem)
    \/ GenerateReturn
    \/ \E route \in {"delete_meal_plan", "delete_meal_item"} : \E a \in MealArgs(route) :
          MealRequest(route, PlannerHeader, a)

SpecPlanner == Init /\ [][PlannerNext]_vars

\* ------------------------------------------------------------------ claims
ExpTick(tok) == tok.exp * TicksPerSec

\* C1: a protected request with an issued token T is accepted at every time
\* before T's exp at which T has not been revoked (its subject existing), is
\* rejected with 401 at every time after a successful logout(T), and is
\* rejected with 401 at every time after T's exp.
C1_AcceptedUntilExpOrLogout ==
    (last.op = "protected" /\ last.tok \in issued) =>
        /\ (last.known /\ last.at < ExpTick(last.tok) /\ ~last.lo /\ ~last.ro)
              => last.res = "200"
        /\ last.lo => last.res = "401"
        /\ NowSec(last.at) > last.tok.exp => last.res = "401"

C8_LogoutTwice ==
    (last.op = "logout" /\ last.lo /\ last.at < ExpTick(last.tok)) =>
        /\ last.res = "ok"
        /\ last.same
        /\ last.listed

\* C9: after refresh_access_token(R) returned a new pair, R is in the
\* revocation store, and every later refresh_access_token(R) before R's exp
\* is rejected.
C9_RefreshRotates ==
    /\ (last.op = "refresh" /\ last.res = "ok") => last.listed
    /\ (last.op = "refresh" /\ last.ro /\ last.at < ExpTick(last.tok))
          => last.res # "ok"

\* C10: every failure of refresh_access_token and logout is InvalidToken,
\* and every failure of authenticate_user is InvalidCredentials.
C10_ErrorOutcomes ==
    /\ (last.op \in {"refresh", "logout"} /\ last.res # "ok")
          => last.res = "InvalidToken"
    /\ (last.op = "login" /\ last.res # "ok") => last.res = "InvalidCredentials"

\* C2: when an earlier call for external id E has returned an internal id, no
\* recipe has been deleted since and the external fetch succeeds, a call
\* ensure_shadow_recipe(E) returns that same non-null id and inserts no row.
C2_EnsureShadowIdempotent ==
    \A w \in Workers :
        (imp[w].pc = "done" /\ imp[w].mode = "import" /\ imp[w].fetched
            /\ imp[w].prevId # 0) =>
            /\ imp[w].rid = imp[w].prevId
            /\ imp[w].rid # 0
            /\ ~imp[w].created
C2_Witness ==
    \E w \in Workers :
        /\ imp[w].pc = "done" /\ imp[w].mode = "import" /\ imp[w].fetched
        /\ imp[w].prevId # 0 /\ imp[w].rid = imp[w].prevId /\ ~imp[w].created

\* C3: in every reachable state of the recipes table at most one row has any
\* given non-null external_id.
C3_ExternalIdUnique ==
    \A r1 \in recipes, r2 \in recipes :
        (r1.external_id # NoExt /\ r1.external_id = r2.external_id) => r1 = r2
C3_Witness ==
    \E w \in Workers : imp[w].pc = "done" /\ imp[w].raced
                       /\ \E r \in recipes : r.external_id = imp[w].ext

\* C5: update_recipe / delete_recipe by requester r on a recipe owned by o
\* reach the database only when r = o; when r # o the answer is 403 and the
\* recipe and its ingredients are unchanged; when r = o the request succeeds.
C5_OwnerOnly ==
    (lastR.op \in {"update", "delete"} /\ lastR.owner # 0) =>
        /\ lastR.fwd => lastR.user = lastR.owner
        /\ lastR.user # lastR.owner => (lastR.http = 403 /\ lastR.same)
        /\ lastR.user = lastR.owner => (lastR.http = 200 /\ ~lastR.same)

\* C6: create_review with no recipe_id and external_id = E, the external fetch
\* succeeding, stores a review whose recipe_id is the id of a row with
\* is_custom = false and external_id = E; the call fails only when a
\* concurrent request inserted E first or deleted the row.
C6_ReviewByExternalId ==
    \A w \in Workers :
        (imp[w].pc = "done" /\ imp[w].mode = "review" /\ imp[w].byExt
            /\ imp[w].fetched) =>
            /\ imp[w].res = "ok" => imp[w].held
            /\ imp[w].res # "ok" => (imp[w].raced \/ imp[w].fkFail)
C6_Witness ==
    \E w \in Workers :
        /\ imp[w].pc = "done" /\ imp[w].mode = "review" /\ imp[w].byExt
        /\ imp[w].fetched /\ imp[w].created /\ imp[w].res = "ok" /\ imp[w].held
        /\ \E v \in reviews, r \in recipes :
              /\ v.recipe_id = r.id /\ r.id = imp[w].rid
              /\ ~r.is_custom /\ r.external_id = imp[w].ext

\* C7: every recipe row is of exactly one kind, user-authored (is_custom and
\* external_id null) or shadow (not is_custom and external_id set).
C7_CustomOrShadow ==
    \A r \in recipes :
        \/ (r.is_custom /\ r.external_id = NoExt)
        \/ (~r.is_custom /\ r.external_id # NoExt)
C7_Witness ==
    /\ \E r \in recipes : r.is_custom /\ r.name = "n2"
    /\ \E r \in recipes : ~r.is_custom /\ r.external_id # NoExt

\* C11 (as stated): revoking an issued token whose remaining lifetime exp - now
\* is zero or negative is a no-op: logout returns without an error outcome,
\* a refresh that reaches its revocation step returns its tokens, and the set
\* of blacklisted tokens is unchanged.
C11_ExpiredRevokeNoop ==
    (last.op \in {"logout", "refresh"} /\ last.tok \in issued
        /\ last.at >= ExpTick(last.tok)) =>
        /\ last.same
        /\ last.op = "logout" => last.res = "ok"

\* C11 (amended): with exp - now zero or negative the blacklist is unchanged;
\* logout returns without an error outcome while the token still passes the
\* expiry check of jwt.decode (whole-second now not above exp) and ends in an
\* error outcome once it does not.
C11_ExpiredRevokeNoopWhileDecodable ==
    (last.op \in {"logout", "refresh"} /\ last.tok \in issued
        /\ last.at >= ExpTick(last.tok)) =>
        /\ last.same
        /\ (last.op = "logout" /\ NowSec(last.at) <= last.tok.exp) => last.res = "ok"
        /\ (last.op = "logout" /\ NowSec(last.at) > last.tok.exp) => last.res # "ok"
C11_Witness ==
    /\ last.op = "logout" /\ last.tok \in issued /\ last.at >= ExpTick(last.tok)
    /\ NowSec(last.at) <= last.tok.exp /\ last.res = "ok" /\ last.same
    /\ ~is_token_revoked(last.tok, blacklist, now)

\* C12: a token for which a blacklist entry has been written is in the
\* blacklist at every instant at which it still passes the expiry check.
C12_RevokedUntilExpiry ==
    \A tok \in written : JwtDecodeOk(tok, now) => is_token_revoked(tok, blacklist, now)

\* C13: when the external fetch for E fails, ensure_shadow_recipe(E) returns
\* no id, create_review returns an error result, and the call has inserted
\* neither a recipe row nor a review row.
C13_FetchFailure ==
    \A w \in Workers :
        (imp[w].pc = "done" /\ imp[w].mode \in {"import", "review"} /\ imp[w].byExt
            /\ ~imp[w].fetched) =>
            /\ imp[w].rid = 0
            /\ imp[w].res = (IF imp[w].mode = "review" THEN "error" ELSE "none")
            /\ ~imp[w].created /\ ~imp[w].fkFail /\ ~imp[w].held
C13_Witness ==
    \E w \in Workers :
        /\ imp[w].pc = "done" /\ imp[w].mode = "review" /\ imp[w].byExt
        /\ ~imp[w].fetched /\ imp[w].res = "error" /\ imp[w].rid = 0
        /\ get_recipe_by_external_id(imp[w].ext) = NoRecipe
        /\ reviews = {}

\* C14: when two ensure_shadow_recipe(E) calls for the same E have run
\* concurrently and both fetched E, exactly one row has external_id = E and
\* both calls have returned that row's id.
C14_ConcurrentImport ==
    \A w1 \in Workers, w2 \in Workers :
        (/\ w1 # w2
         /\ imp[w1].pc = "done" /\ imp[w1].mode = "import" /\ imp[w1].fetched
         /\ imp[w2].pc = "done" /\ imp[w2].mode = "import" /\ imp[w2].fetched
         /\ imp[w1].ext = imp[w2].ext
         /\ get_recipe_by_external_id(imp[w1].ext) # NoRecipe) =>
            /\ imp[w1].rid = get_recipe_by_external_id(imp[w1].ext).id
            /\ imp[w2].rid = imp[w1].rid

C16_ReviewsOfDesignatedRecipe ==
    lastR.op = "reviews" =>
        /\ \A v \in reviews : v.id \in lastR.got => v.recipe_id = lastR.picked
        /\ (lastR.mode = "internal" /\ lastR.picked # 0) => lastR.picked = lastR.rid
        /\ (lastR.mode = "external" /\ lastR.picked # 0) =>
              get_custom_recipe_by_id(lastR.picked).external_id = Str(lastR.rid)
        /\ lastR.mode = "auto" => lastR.matches <= 1

\* C17: when delete_meal_plan(P) succeeds (the route answers 204), no
\* meal_plan_items row with meal_plan_id = P remains, plan P is gone, and the
\* plan rows and item rows of every other plan are what they were.
C17_DeletePlanCascade ==
    [][(lastM'.route = "delete_meal_plan" /\ lastM'.http = 204) =>
          /\ \A i \in mealItems' : i.meal_plan_id # lastM'.id
          /\ \A q \in mealPlans' : q.id # lastM'.id
          /\ {q \in mealPlans' : q.id # lastM'.id} = {q \in mealPlans : q.id # lastM'.id}
          /\ {i \in mealItems' : i.meal_plan_id # lastM'.id}
                = {i \in mealItems : i.meal_plan_id # lastM'.id}]_vars

\* a plan with items was deleted while another plan keeps its items
C17_Witness ==
    /\ lastM.route = "delete_meal_plan"
    /\ lastM.http = 204
    /\ lastM.removed >= 1
    /\ \E i \in mealItems : PlanExists(i.meal_plan_id)

\* C18: a meal-plan route runs its storage operation only when the
\* Authorization header is the bearer scheme followed by the internal service
\* secret; with a missing header, another scheme, a malformed value or any
\* other token (a valid user JWT included) the answer is 401, the operation
\* is not run and storage is unchanged.
C18_InternalSecretOnly ==
    lastM.route # "none" =>
        IF Len(lastM.hdr) = 2 /\ Lower(lastM.hdr[1]) = "bearer"
              /\ lastM.hdr[2] = InternalSecret
        THEN lastM.performed /\ lastM.http # 401
        ELSE lastM.http = 401 /\ ~lastM.performed /\ lastM.same

\* a user's JWT is refused on a delete that the internal secret would perform
C18_Witness ==
    /\ lastM.route = "delete_meal_plan"
    /\ lastM.hdr = <<"Bearer", "user-jwt">>
    /\ lastM.http = 401
    /\ PlanExists(1)
    /\ \E i \in mealItems : i.meal_plan_id = 1

\* C19: generate_meal_plan returns None exactly when creating the plan row
\* failed; once the row exists it returns the plan, whose slots carrying an
\* item id are exactly the items it inserted, whatever proposals or
\* insertions failed; and no step of it removes a plan row or an item row.
C19_NoRollback ==
    /\ [](gen.pc = "done" =>
            /\ (gen.res = "None") <=> ~gen.created
            /\ gen.created =>
                  /\ gen.res = "plan"
                  /\ {s.item : s \in gen.slots} \ {0} = gen.inserted)
    /\ [][GenerateStep => (mealPlans \subseteq mealPlans' /\ mealItems \subseteq mealItems')]_vars

\* a plan returned with one slot unproposed, one whose insertion failed and
\* one inserted; the plan row and the inserted item are still stored
C19_Witness ==
    /\ gen.pc = "done"
    /\ gen.res = "plan"
    /\ Cardinality(gen.slots) < Len(meal_types) * gen.days
    /\ \E s \in gen.slots : s.item = 0
    /\ \E s \in gen.slots : s.item # 0 /\ ItemExists(s.item)
    /\ PlanExists(gen.plan)

\* C20: creating a custom recipe with ingredient list L stores, and returns,
\* exactly the ingredients of L (names and measures, with multiplicity);
\* update_custom_recipe with a list L2 replaces the stored list by exactly L2,
\* and an update without an ingredients field leaves the stored list as it
\* was; the ingredients of every other recipe are untouched.
C20_IngredientsExact ==
    [][/\ \A u \in AuthorIds, L \in IngredientPayloads :
            CreateCustomRecipe(u, "n1", L) =>
                /\ ResponseIngredients(nextRecipeId, ingredients') = IngredientBag(L)
                /\ \A o \in RecipeIds \ {nextRecipeId} :
                      ResponseIngredients(o, ingredients') = ResponseIngredients(o, ingredients)
       /\ \A id \in RecipeIds, upd \in UpdatePayloads :
            UpdateCustomRecipe(id, upd) =>
                /\ ResponseIngredients(id, ingredients')
                      = IF upd.has_ings THEN IngredientBag(upd.ings)
                        ELSE ResponseIngredients(id, ingredients)
                /\ \A o \in RecipeIds \ {id} :
                      ResponseIngredients(o, ingredients') = ResponseIngredients(o, ingredients)
      ]_vars

\* a recipe created with a repeated ingredient and then renamed by an update
\* without ingredients, next to one whose list an update replaced
C20_Witness ==
    /\ \E r \in recipes :
          /\ r.name = "n3"
          /\ ResponseIngredients(r.id, ingredients)
                = IngredientBag(<<Ing("egg", "2"), Ing("egg", "2")>>)
    /\ \E r \in recipes :
          /\ r.name = "n2"
          /\ ResponseIngredients(r.id, ingredients) = IngredientBag(<<Ing("salt", NULL)>>)

\* C21: refresh_access_token rejects every token whose type is not
\* "refresh", and a rejected refresh (wrong class, revoked, bad signature or
\* expired, unknown subject) issues no token and leaves the revocation store
\* as it was.
C21_RejectedRefreshNoEffect ==
    last.op = "refresh" =>
        /\ last.tok.type # "refresh" => last.res # "ok"
        /\ last.res # "ok" => (~last.minted /\ last.same)

\* a live, unrevoked access token of a known user was presented and refused
C21_Witness ==
    /\ last.op = "refresh"
    /\ last.tok \in issued
    /\ last.tok.type = "access"
    /\ JwtDecodeOk(last.tok, last.at)
    /\ last.known
    /\ ~last.listed
    /\ last.res # "ok"
    /\ last.same

\* C22: a refresh token is single-use: of the refresh_access_token calls
\* presenting the same refresh token R, over every interleaving, at most one
\* returns a new token pair.
C22_RefreshSingleUse ==
    \A w1 \in Workers, w2 \in Workers :
        (w1 # w2 /\ rf[w1].pc = "done" /\ rf[w2].pc = "done"
            /\ rf[w1].tok = rf[w2].tok /\ rf[w1].res = "ok") => rf[w2].res # "ok"

\* C23: authenticate_user issues a token pair only when the user exists, the
\* password matches the stored hash and the account is active (is_active of the
\* row); otherwise it raises InvalidCredentials and issues no token.
C23_LoginOnlyActive ==
    [][\A u \in AuthSubjects, p \in Passwords :
          AuthenticateUser(u, p) =>
              /\ last'.res = "ok" =>
                    /\ get_user_by_username(u) # NoUser
                    /\ verify_password(p, get_user_by_username(u).hashed_password)
                    /\ get_user_by_username(u).is_active
              /\ last'.res # "ok" =>
                    (last'.res = "InvalidCredentials" /\ issued' = issued)]_vars

\* C24: logout(T) changes the revocation status of T only: every other token,
\* the refresh token of the same login included, keeps the status it had; a
\* logout request without an Authorization header changes nothing.
C24_LogoutOnlyThatToken ==
    /\ [](last.op = "logout" => last.others)
    /\ [][LogoutRequest(<<>>) =>
            (last'.res = "ok"
                /\ UNCHANGED <<now, blacklist, issued, loggedOut, rotated, written, users>>)]_vars
C24_Witness ==
    /\ last.op = "logout" /\ last.res = "ok" /\ last.tok.type = "access"
    /\ ~last.lo /\ last.listed /\ last.others
    /\ \E x \in issued :
          /\ x.type = "refresh" /\ x.sub = last.tok.sub
          /\ x.exp - RefreshLifeSec = last.tok.exp - AccessLifeSec
          /\ JwtDecodeOk(x, now)
          /\ ~is_token_revoked(x, blacklist, now)

\* C25: delete_review(r, V) deletes review V exactly when r is the author of V
\* or the owner (user_id) of the recipe V refers to; when V does not exist the
\* answer is 404, and for every other requester it is 403 and V stays stored.
C25_DeleteReviewAuthorOrOwner ==
    lastR.op = "delete_review" =>
        IF lastR.author = 0
        THEN lastR.http = 404 /\ lastR.same
        ELSE IF lastR.user = lastR.author \/ lastR.user = lastR.owner
        THEN lastR.http = 200 /\ ~lastR.same /\ get_review_by_id(lastR.rid) = NoReview
        ELSE lastR.http = 403 /\ lastR.same /\ get_review_by_id(lastR.rid) # NoReview
C25_Witness ==
    /\ lastR.op = "delete_review" /\ lastR.author # 0
    /\ lastR.user # lastR.author /\ lastR.user = lastR.owner
    /\ lastR.http = 200 /\ get_review_by_id(lastR.rid) = NoReview

\* C26: update_recipe and delete_recipe on a shadow row (user_id null,
\* is_custom false) return, for every requester, a permission-error result
\* with code 403 (no exception), and the row is unchanged.
C26_ShadowNotMutable ==
    \A r \in recipes :
        (lastR.op \in {"update", "delete"} /\ lastR.rid = r.id
            /\ ~r.is_custom /\ r.user_id = 0) =>
            (lastR.http = 403 /\ lastR.res # "TypeError" /\ lastR.same)

\* C27: get_recipe(id) without a source returns the local row tagged
\* "internal" whenever a local row with that id exists and asks the external
\* provider only when there is none; with source = "external" it does not
\* read the local store and returns the external record or nothing.
C27_LocalRowFirst ==
    lastR.op = "get" =>
        /\ (lastR.mode # "external" /\ get_custom_recipe_by_id(lastR.rid) # NoRecipe) =>
              (lastR.res = "internal" /\ ~lastR.ext)
        /\ (lastR.mode # "external" /\ lastR.ext) =>
              get_custom_recipe_by_id(lastR.rid) = NoRecipe
        /\ lastR.mode = "external" =>
              (~lastR.db /\ lastR.res \in {"external", "none"})

\* C28: in every reachable state the recipe_id of every review row is the id
\* of an existing recipe row.
C28_ReviewsReferToRecipes ==
    \A v \in reviews : \E r \in recipes : r.id = v.recipe_id
C28_Witness ==
    /\ lastR.op = "db_delete" /\ lastR.res = "IntegrityError"
    /\ \E v \in reviews : \E r \in recipes : r.id = v.recipe_id /\ ~r.is_custom

\* C29: search_unified lists no recipe twice: no external entry has the
\* external_id of a local row listed by the internal search; every local
\* entry is tagged "internal", every external entry "external" with a null
\* internal id; when one search fails the entries of the other are listed.
C29_NoDuplicateListing ==
    lastR.op = "search" =>
        LET internal == {e \in lastR.got : e.source = "internal"}
            external == {e \in lastR.got : e.source = "external"}
        IN /\ lastR.got = internal \cup external
           /\ \A e \in internal : \E r \in recipes : r.id = e.id /\ ILike(r.name, lastR.mode)
           /\ \A e \in external : e.id = 0 /\ e.external_id # NoExt
           /\ \A i \in internal, x \in external :
                 get_custom_recipe_by_id(i.id).external_id # x.external_id
           /\ (lastR.res \in {"down", "error"} /\ lastR.ext) =>
                 {e.external_id : e \in external}
                     = {Str(n) : n \in ExternalMeals(lastR.mode)}
           /\ (lastR.res = "ok" /\ ~lastR.ext) =>
                 {e.id : e \in internal}
                     = {r.id : r \in {x \in recipes : ILike(x.name, lastR.mode)}}
C29_Witness ==
    /\ lastR.op = "search" /\ lastR.res = "error" /\ lastR.ext
    /\ \E e \in lastR.got, r \in recipes :
          e.source = "external" /\ r.external_id = e.external_id /\ r.name = lastR.mode
    /\ \E r \in recipes : r.is_custom /\ r.name = lastR.mode

\* C30: get_user_id_from_token(T) returns the user id of T's subject when the
\* authentication service accepts T, raises 401 when it rejects T and 503
\* when it is unreachable; the recipe service creates, updates or deletes
\* nothing unless an id was returned.
C30_UserIdFromToken ==
    /\ [](last.op = "user_id" =>
            /\ ~last.up => last.res = "503"
            /\ (last.up /\ ~last.listed /\ JwtDecodeOk(last.tok, last.at) /\ last.known) =>
                  (last.res = "id" /\ last.uid # 0)
            /\ (last.up /\ (last.listed \/ ~JwtDecodeOk(last.tok, last.at) \/ ~last.known)) =>
                  last.res = "401")
    /\ [][(recipes' # recipes \/ reviews' # reviews) => last'.res = "id"]_vars

====
